---- MODULE Spec2Model ----
(***************************************************************************)
(* Transport executor (HTTP.fetch) and cursor-pagination coordinator       *)
(* (SearchOperator) of notionkit, modelled as state machines.              *)
(*                                                                         *)
(*   SpecFetch     one HTTP.fetch call consumed through data$ and raw$     *)
(*   SpecShare     one HTTP.fetch call with several consumers              *)
(*   SpecClassify  HTTP.isRetryableError applied to error objects          *)
(*   SpecSearch    one SearchOperator.execute pagination run               *)
(*   SpecReuse     the same, with a Reporter reused from an earlier run    *)
(*   SpecPageRetry the same, under an HTTPConfig with its own retry budget *)
(*   SpecGet       one GetOperator call                                    *)
(*   SpecConfig    one construction of an HTTPConfig                       *)
(***************************************************************************)
EXTENDS Integers, Sequences, FiniteSets, TLC

(***************************************************************************)
(* Bounds of the model.                                                    *)
(***************************************************************************)
MaxRetries == 2        \* config.retries ranges over 0..MaxRetries (or undefined)
MaxAttempts == 4       \* network calls issued by one HTTP.fetch call
MaxSharedAttempts == 2 \* the same, when a second data$ consumer takes part
MaxPages == 3          \* pages of the cursor chain the server holds
MaxPageSize == 2       \* results per page
MaxResults == 5        \* limits.results ranges over 0..MaxResults (or undefined)
MaxPageLimit == 3      \* limits.pages ranges over 0..MaxPageLimit (or undefined)
MaxReused == 2         \* requests and items a reused Reporter already shows

(***************************************************************************)
(* Program constants.                                                      *)
(***************************************************************************)
DefaultRetries == 3    \* config.retries ?? 3
DefaultBackoff == 500  \* config.backoff ?? 500 * Math.pow(2, retryCount)
BaseBackoff == 100     \* the configured backoff used by the tests
CallTimeout == 5000    \* the configured per-call timeout used by the tests

Undef == -1            \* an option left undefined

RECURSIVE Pow2(_)
Pow2(n) == IF n <= 0 THEN 1 ELSE 2 * Pow2(n - 1)

(***************************************************************************)
(* Error objects, as far as HTTP.isRetryableError looks at them.           *)
(***************************************************************************)
AllStatuses == {400, 401, 403, 404, 408, 409, 429, 500, 501, 502, 503, 504}

MkError(name, msgFetch, msgTimeout, isHttpError, status, attempt) ==
  [name |-> name, msgFetch |-> msgFetch, msgTimeout |-> msgTimeout,
   isHttpError |-> isHttpError, status |-> status, attempt |-> attempt]

\* HTTP.isRetryableError: the three tests in the order of the code.
IsRetryableError(error) ==
  IF error.name = "TypeError" /\ error.msgFetch THEN TRUE
  ELSE IF error.name = "AbortError" \/ error.msgTimeout THEN TRUE
  ELSE IF error.isHttpError /\ error.status # 0
       THEN error.status \in {502, 503, 504}
       ELSE FALSE

(***************************************************************************)
(* State of one HTTP.fetch call.                                           *)
(***************************************************************************)
VARIABLES
  config,      \* the HTTPConfig of the call: retries, backoff, timeout
  reporter,    \* the Reporter of the call: stage, errors, message; log: every
               \* value the stage was set to, in order
  share,       \* shareReplay(1) of fetchAndParse$: connection and cached value
  fetchState,  \* the fetch() promise of the current connection
  aborted,     \* controller.signal.aborted
  attempts,    \* network calls issued so far
  hist,        \* outcome of every network call, in order
  subs,        \* subscribers of the shared subject, in subscription order
  cons,        \* the consumers of data$ and raw$; via: how the last subscription
               \* to the shared subject was served (connect, join, replay)
  live         \* the consumers the caller creates in this run

fetchVars == <<config, reporter, share, fetchState, aborted, attempts, hist, subs, cons, live>>

(***************************************************************************)
(* State of one application of HTTP.isRetryableError.                      *)
(***************************************************************************)
VARIABLES
  cerr,        \* the error object passed in
  cres         \* the value returned: "unset" before the call

classVars == <<cerr, cres>>

(***************************************************************************)
(* State of one SearchOperator.execute run.                                *)
(***************************************************************************)
VARIABLES
  opConfig,    \* operatorConfig: limits.results, limits.pages, timeout
  httpConfig,  \* the HTTPConfig passed to execute: retries, backoff
  source,      \* the pages the server holds, in cursor order
  opReporter,  \* the Reporter of the run: stage, requests, items, cursor, message
  cancelSt,    \* cancel$: "open", or "stopped" once completed
  signalFired, \* cancel() was called or the global timer fired
  timerSt,     \* the global timer: "off", "armed", "cancelled", "fired"
  dataSt,      \* data$: "unsub", "active", "done", "cancelled", "error"
  takeUntilOn, \* takeUntil(cancel$) is still listening to cancel$
  cur,         \* the page call of data$: page, phase, retryCount
  rawSt,       \* the call behind raw$: "unsub", "network", "ok", "fallback"
  pageRequests,\* page calls (HTTP.post(...).data$) subscribed by data$
  retriesIssued,\* page calls issued again after a retryable failure
  emitted      \* result count of every page emitted on data$, in order

searchVars == <<opConfig, httpConfig, source, opReporter, cancelSt, signalFired, timerSt, dataSt,
                takeUntilOn, cur, rawSt, pageRequests, retriesIssued, emitted>>

(***************************************************************************)
(* State of one GetOperator call.                                          *)
(***************************************************************************)
VARIABLES
  gCall,       \* the call: method, resource, id, property_id, hasReporter
  gLimits,     \* operatorConfig.limits: results, pages
  gOpts,       \* hasCancel: a cancel$ subject reaches #single or #paginated;
               \* timeout: operatorConfig.timeout of execute
  gCancelAt,   \* the state of data$ when cancel() was called, "no" before
  gTimer,      \* the global timer of execute: "off", "armed", "fired", "threw", "cancelled"
  gSource,     \* the pages of the property list the server holds, in cursor order
  gPhase,      \* the call: "idle", "built" (HTTPResponse returned), "threw"
  gReporter,   \* the Reporter passed to the call: stage, requests, items, errors, message
  gData,       \* data$: "unsub", "active", "done", "error", "cancelled"
  gCur,        \* the request of data$ in flight: cursor sent, number, phase
  gUrls,       \* every request issued by data$: endpoint path and cursor, in order
  gEmitted     \* result count of every response emitted on data$, in order

getVars == <<gCall, gLimits, gOpts, gCancelAt, gTimer, gSource, gPhase, gReporter, gData, gCur,
             gUrls, gEmitted>>

(***************************************************************************)
(* State of one construction of an HTTPConfig.                             *)
(***************************************************************************)
VARIABLES
  hArg,        \* the argument of the constructor: baseUrl, headers, token, method, timeout
  hConfig      \* the HTTPConfig built from it; built = FALSE before the call

cfgVars == <<hArg, hConfig>>

vars == <<fetchVars, classVars, searchVars, getVars, cfgVars>>

DataConsumers == {"d1", "d2"}
RawConsumers == {"r1"}
Consumers == DataConsumers \cup RawConsumers

Kind(c) == IF c \in DataConsumers THEN "data" ELSE "raw"

NoError == MkError("none", FALSE, FALSE, FALSE, 0, 0)
NoMessage == [kind |-> "none", delay |-> 0, err |-> NoError]

\* What the network can answer to one call.
Statuses == {404, 500, 503}
OkOutcome == [kind |-> "ok", status |-> 200, text |-> FALSE]
BadJsonOutcome == [kind |-> "badjson", status |-> 200, text |-> FALSE]
NetErrOutcome == [kind |-> "neterr", status |-> 0, text |-> FALSE]
AbortedOutcome == [kind |-> "aborted", status |-> 0, text |-> FALSE]
HttpOutcome(s, t) == [kind |-> "http", status |-> s, text |-> t]
\* text: the error body of the response contains the word "timeout"
Outcomes == {OkOutcome, BadJsonOutcome, NetErrOutcome}
            \cup {HttpOutcome(s, FALSE) : s \in Statuses}
            \cup {HttpOutcome(404, TRUE)}

\* The error object that reaches retryWhen for a failed call.
ErrorOf(o, n) ==
  CASE o.kind = "http" -> MkError("Error", FALSE, o.text, TRUE, o.status, n)
    [] o.kind = "neterr" -> MkError("TypeError", TRUE, FALSE, FALSE, 0, n)
    [] o.kind = "badjson" -> MkError("SyntaxError", FALSE, FALSE, FALSE, 0, n)
    [] OTHER -> MkError("AbortError", FALSE, FALSE, FALSE, 0, n)

TimeoutError == MkError("Error", FALSE, TRUE, FALSE, 0, 0)

\* config.retries ?? 3
EffRetries == IF config.retries = Undef THEN DefaultRetries ELSE config.retries

\* const backoffDelay = config.backoff ?? 500 * Math.pow(2, retryCount)
BackoffDelay(retryCount) ==
  IF config.backoff # Undef THEN config.backoff ELSE DefaultBackoff * Pow2(retryCount)

\* Faulty variant of the wait: it halves with every retry.
DelayWhenShrinking(retryCount) ==
  (IF config.backoff # Undef THEN config.backoff ELSE DefaultBackoff) \div Pow2(retryCount)

\* delayWhen((retryCount) => timer(config.backoff ?? 500 * Math.pow(2, retryCount)))
DelayWhen(retryCount) ==
  IF config.backoff # Undef THEN config.backoff ELSE DefaultBackoff * Pow2(retryCount)

\* Faulty variant of the scan step: one retry more than the budget.
ScanStepOffByOne(retryCount, error, rep) ==
  LET rep1 == [rep EXCEPT !.errors = @ + 1] IN
  IF ~IsRetryableError(error) \/ retryCount > EffRetries
  THEN [thrown |-> TRUE, retryCount |-> retryCount,
        rep |-> [rep1 EXCEPT !.stage = "error", !.log = Append(@, "error"),
                             !.message = [kind |-> "error", delay |-> 0, err |-> error]]]
  ELSE [thrown |-> FALSE, retryCount |-> retryCount + 1,
        rep |-> [rep1 EXCEPT !.stage = "retry", !.log = Append(@, "retry"),
                             !.message = [kind |-> "retrying",
                                          delay |-> BackoffDelay(retryCount),
                                          err |-> error]]]

\* The scan of retryWhen: classify, count the error, throw or schedule a retry.
ScanStep(retryCount, error, rep) ==
  LET rep1 == [rep EXCEPT !.errors = @ + 1] IN
  IF ~IsRetryableError(error) \/ retryCount >= EffRetries
  THEN [thrown |-> TRUE, retryCount |-> retryCount,
        rep |-> [rep1 EXCEPT !.stage = "error", !.log = Append(@, "error"),
                             !.message = [kind |-> "error", delay |-> 0, err |-> error]]]
  ELSE [thrown |-> FALSE, retryCount |-> retryCount + 1,
        rep |-> [rep1 EXCEPT !.stage = "retry", !.log = Append(@, "retry"),
                             !.message = [kind |-> "retrying",
                                          delay |-> BackoffDelay(retryCount),
                                          err |-> error]]]

\* Faulty variant of the catch-all: it counts the error a second time.
CatchErrorCounting(error, rep) ==
  [rep EXCEPT !.errors = @ + 1, !.stage = "error", !.log = Append(@, "error"),
              !.message = [kind |-> "error", delay |-> 0, err |-> error]]

\* Faulty variant of the catch-all: it reports a generic failure.
CatchErrorGeneric(error, rep) ==
  [rep EXCEPT !.stage = "error", !.log = Append(@, "error"),
              !.message = [kind |-> "exhausted", delay |-> 0, err |-> NoError]]

\* The catchError after retryWhen.
CatchError(error, rep) ==
  [rep EXCEPT !.stage = "error", !.log = Append(@, "error"),
              !.message = [kind |-> "error", delay |-> 0, err |-> error]]

\* An error of fetchAndParse$ reaching one subscriber of the shared subject.
ErrorTo(c, error, rep, cs) ==
  IF Kind(c) = "raw"
  THEN [rep |-> rep, cons |-> [cs EXCEPT ![c].st = "fallback"]]
  ELSE LET s == ScanStep(cs[c].retryCount, error, rep) IN
       IF s.thrown
       THEN [rep |-> CatchError(error, s.rep),
             cons |-> [cs EXCEPT ![c].st = "err", ![c].err = error]]
       ELSE [rep |-> s.rep,
             cons |-> [cs EXCEPT ![c].st = "backoff",
                                 ![c].retryCount = s.retryCount,
                                 ![c].waits = Append(@, DelayWhen(s.retryCount))]]

RECURSIVE DeliverError(_, _, _, _)
DeliverError(ss, error, rep, cs) ==
  IF ss = <<>> THEN [rep |-> rep, cons |-> cs]
  ELSE LET r == ErrorTo(Head(ss), error, rep, cs)
       IN DeliverError(Tail(ss), error, r.rep, r.cons)

\* A value of fetchAndParse$ reaching one subscriber: data$ maps it to the
\* parsed payload, raw$ to the raw response, both of network call n.
ValueTo(c, n, cs) == [cs EXCEPT ![c].st = "ok", ![c].out = n]

RECURSIVE DeliverValue(_, _, _)
DeliverValue(ss, n, cs) ==
  IF ss = <<>> THEN cs ELSE DeliverValue(Tail(ss), n, ValueTo(Head(ss), n, cs))

\* Faulty variant: the shared subject is dropped when the source completes.
ShareOnCompleteReset(n) == [state |-> "idle", value |-> 0]

\* shareReplay(1): the completed subject keeps the last value for late subscribers.
ShareOnComplete(n) == [state |-> "completed", value |-> n]

\* shareReplay(1): an error resets the connection and the subject.
ShareOnError == [state |-> "idle", value |-> 0]

Without(ss, c) == SelectSeq(ss, LAMBDA x : x # c)

\* The error objects HTTP.fetch and its callers hand to isRetryableError:
\* fetch() rejections, aborts, plain and parse errors, and HTTP errors whose
\* message carries the response body.
ErrorObjects ==
  {MkError("TypeError", f, FALSE, FALSE, 0, 0) : f \in BOOLEAN}
  \cup {MkError("AbortError", FALSE, FALSE, FALSE, 0, 0)}
  \cup {MkError(n, FALSE, t, FALSE, 0, 0) : n \in {"Error", "SyntaxError"}, t \in BOOLEAN}
  \cup {MkError("Error", f, t, TRUE, s, 0) : f \in BOOLEAN, t \in BOOLEAN, s \in AllStatuses}

ClassifyIdle == cerr = NoError /\ cres = "unset"

SearchIdle ==
  /\ opConfig = [results |-> Undef, pages |-> Undef, timeout |-> Undef]
  /\ httpConfig = [retries |-> Undef, backoff |-> Undef]
  /\ source = <<>>
  /\ opReporter = [stage |-> "requesting", requests |-> 0, items |-> 0, errors |-> 0,
                   cursor |-> 0, message |-> "none"]
  /\ cancelSt = "open"
  /\ signalFired = FALSE
  /\ timerSt = "off"
  /\ dataSt = "unsub"
  /\ takeUntilOn = FALSE
  /\ cur = [page |-> 0, phase |-> "none", retryCount |-> 0]
  /\ rawSt = "unsub"
  /\ pageRequests = 0
  /\ retriesIssued = 0
  /\ emitted = <<>>

EmptyMap == [k \in {} |-> "none"]

ConfigIdle ==
  /\ hArg = [baseUrl |-> "none", headers |-> [given |-> FALSE, map |-> EmptyMap],
             token |-> "none", method |-> "none", timeout |-> Undef]
  /\ hConfig = [built |-> FALSE, baseUrl |-> "none", headers |-> EmptyMap, method |-> "none",
                timeout |-> Undef]

GetIdle ==
  /\ gCall = [method |-> "none", resource |-> "none", id |-> "none", property_id |-> "none",
              hasReporter |-> FALSE]
  /\ gLimits = [results |-> Undef, pages |-> Undef]
  /\ gOpts = [hasCancel |-> FALSE, timeout |-> Undef]
  /\ gCancelAt = "no"
  /\ gTimer = "off"
  /\ gSource = <<>>
  /\ gPhase = "idle"
  /\ gReporter = [stage |-> "requesting", requests |-> 0, items |-> 0, errors |-> 0,
                  message |-> "none"]
  /\ gData = "unsub"
  /\ gCur = [cursor |-> 0, n |-> 0, phase |-> "none"]
  /\ gUrls = <<>>
  /\ gEmitted = <<>>

AttemptCap == IF "d2" \in live THEN MaxSharedAttempts ELSE MaxAttempts

InitCall ==
  /\ reporter = [stage |-> "none", errors |-> 0, message |-> NoMessage, log |-> <<>>]
  /\ share = [state |-> "idle", value |-> 0]
  /\ fetchState = "none"
  /\ aborted = FALSE
  /\ attempts = 0
  /\ hist = <<>>
  /\ subs = <<>>
  /\ cons = [c \in Consumers |->
               [st |-> "idle", retryCount |-> 0, waits |-> <<>>, out |-> 0, err |-> NoError,
                via |-> "none"]]

\* One call consumed through one data$ and one raw$ subscription.
InitFetch ==
  /\ config \in [retries : {Undef} \cup (0..MaxRetries),
                 backoff : {Undef, BaseBackoff},
                 timeout : {Undef, CallTimeout}]
  /\ live = {"d1", "r1"}
  /\ InitCall
  /\ ClassifyIdle
  /\ SearchIdle
  /\ GetIdle
  /\ ConfigIdle

\* One call with several consumers attaching at any time.
InitShare ==
  /\ config \in [retries : {0, 1},
                 backoff : {BaseBackoff},
                 timeout : {Undef, CallTimeout}]
  /\ live = Consumers
  /\ InitCall
  /\ ClassifyIdle
  /\ SearchIdle
  /\ GetIdle
  /\ ConfigIdle

\* Subscribing to shareReplay(1): replay, join the connection, or connect,
\* which calls fetch() with the signal of the controller.
ShareSubscribe(c) ==
  \/ /\ share.state = "completed"
     /\ cons' = ValueTo(c, share.value, [cons EXCEPT ![c].via = "replay"])
     /\ UNCHANGED <<share, fetchState, attempts, subs>>
  \/ /\ share.state = "connected"
     /\ cons' = [cons EXCEPT ![c].st = "sub", ![c].via = "join"]
     /\ subs' = Append(subs, c)
     /\ UNCHANGED <<share, fetchState, attempts>>
  \/ /\ share.state = "idle"
     /\ share' = [share EXCEPT !.state = "connected"]
     /\ cons' = [cons EXCEPT ![c].st = "sub", ![c].via = "connect"]
     /\ subs' = Append(subs, c)
     /\ IF aborted
        THEN fetchState' = "rejecting" /\ UNCHANGED attempts
        ELSE /\ attempts < AttemptCap
             /\ fetchState' = "network"
             /\ attempts' = attempts + 1

\* A consumer subscribes to data$ (request$, raced against the timer if set).
SubscribeData(c) ==
  /\ Kind(c) = "data"
  /\ c \in live
  /\ cons[c].st = "idle"
  /\ ShareSubscribe(c)
  /\ UNCHANGED <<config, reporter, aborted, hist, live>>
  /\ UNCHANGED <<classVars, searchVars, getVars, cfgVars>>

\* A consumer subscribes to raw$.
SubscribeRaw(c) ==
  /\ Kind(c) = "raw"
  /\ c \in live
  /\ cons[c].st = "idle"
  /\ ShareSubscribe(c)
  /\ UNCHANGED <<config, reporter, aborted, hist, live>>
  /\ UNCHANGED <<classVars, searchVars, getVars, cfgVars>>

\* The network answers the call in flight; switchMap parses the body.
Respond(o) ==
  /\ fetchState = "network"
  /\ fetchState' = "none"
  /\ hist' = Append(hist, o)
  /\ subs' = <<>>
  /\ IF o.kind = "ok"
     THEN /\ reporter' = [reporter EXCEPT !.stage = "complete", !.log = Append(@, "complete")]
          /\ share' = ShareOnComplete(attempts)
          /\ cons' = DeliverValue(subs, attempts, cons)
     ELSE LET e == ErrorOf(o, attempts)
              rep0 == IF o.kind = "http"
                      THEN [reporter EXCEPT !.stage = "error", !.log = Append(@, "error"),
                                            !.message = [kind |-> "fetch", delay |-> 0,
                                                         err |-> e]]
                      ELSE reporter
              r == DeliverError(subs, e, rep0, cons)
          IN /\ reporter' = r.rep
             /\ share' = ShareOnError
             /\ cons' = r.cons
  /\ UNCHANGED <<config, aborted, attempts, live>>
  /\ UNCHANGED <<classVars, searchVars, getVars, cfgVars>>

\* The fetch() promise of an aborted signal rejects with an AbortError.
FetchReject ==
  /\ fetchState = "rejecting"
  /\ fetchState' = "none"
  /\ subs' = <<>>
  /\ LET r == DeliverError(subs, ErrorOf(AbortedOutcome, attempts), reporter, cons)
     IN /\ reporter' = r.rep
        /\ cons' = r.cons
  /\ share' = ShareOnError
  /\ UNCHANGED <<config, aborted, attempts, hist, live>>
  /\ UNCHANGED <<classVars, searchVars, getVars, cfgVars>>

\* The delayWhen timer of a waiting retry fires: retryWhen resubscribes.
BackoffElapsed(c) ==
  /\ cons[c].st = "backoff"
  /\ ShareSubscribe(c)
  /\ UNCHANGED <<config, reporter, aborted, hist, live>>
  /\ UNCHANGED <<classVars, searchVars, getVars, cfgVars>>

\* controller.abort(): an in-flight call is aborted.
Abort ==
  /\ aborted' = TRUE
  /\ IF fetchState = "network"
     THEN fetchState' = "rejecting" /\ hist' = Append(hist, AbortedOutcome)
     ELSE UNCHANGED <<fetchState, hist>>

\* Faulty variant of the timer: the call in flight is left alone.
TimerFiresNoAbort(c) ==
  /\ config.timeout # Undef
  /\ Kind(c) = "data"
  /\ cons[c].st \in {"sub", "backoff"}
  /\ reporter' = [reporter EXCEPT !.errors = @ + 1, !.stage = "timeout", !.log = Append(@, "timeout"),
                                  !.message = [kind |-> "timeout", delay |-> config.timeout,
                                               err |-> TimeoutError]]
  /\ cons' = [cons EXCEPT ![c].st = "timeout", ![c].err = TimeoutError]
  /\ subs' = Without(subs, c)
  /\ UNCHANGED <<config, share, attempts, live, aborted, fetchState, hist>>
  /\ UNCHANGED <<classVars, searchVars, getVars, cfgVars>>

\* Faulty variant of the timer: it only guards the first attempt.
TimerFiresFirstAttempt(c) ==
  /\ config.timeout # Undef
  /\ Kind(c) = "data"
  /\ cons[c].st = "sub" /\ cons[c].retryCount = 0
  /\ Abort
  /\ reporter' = [reporter EXCEPT !.errors = @ + 1, !.stage = "timeout",
                                  !.log = Append(@, "timeout"),
                                  !.message = [kind |-> "timeout", delay |-> config.timeout,
                                               err |-> TimeoutError]]
  /\ cons' = [cons EXCEPT ![c].st = "timeout", ![c].err = TimeoutError]
  /\ subs' = Without(subs, c)
  /\ UNCHANGED <<config, share, attempts, live>>
  /\ UNCHANGED <<classVars, searchVars, getVars, cfgVars>>

\* timer(config.timeout) wins the race of one data$ subscription.
TimerFires(c) ==
  /\ config.timeout # Undef
  /\ Kind(c) = "data"
  /\ cons[c].st \in {"sub", "backoff"}
  /\ Abort
  /\ reporter' = [reporter EXCEPT !.errors = @ + 1, !.stage = "timeout", !.log = Append(@, "timeout"),
                                  !.message = [kind |-> "timeout", delay |-> config.timeout,
                                               err |-> TimeoutError]]
  /\ cons' = [cons EXCEPT ![c].st = "timeout", ![c].err = TimeoutError]
  /\ subs' = Without(subs, c)
  /\ UNCHANGED <<config, share, attempts, live>>
  /\ UNCHANGED <<classVars, searchVars, getVars, cfgVars>>

\* cancel() of the returned HTTPResponse.
Cancel ==
  /\ ~aborted
  /\ Abort
  /\ UNCHANGED <<config, reporter, share, attempts, subs, cons, live>>
  /\ UNCHANGED <<classVars, searchVars, getVars, cfgVars>>

NextFetch ==
  \/ \E c \in Consumers : SubscribeData(c)
  \/ \E c \in Consumers : SubscribeRaw(c)
  \/ \E o \in Outcomes : Respond(o)
  \/ FetchReject
  \/ \E c \in Consumers : BackoffElapsed(c)
  \/ \E c \in Consumers : TimerFires(c)
  \/ Cancel

SpecFetch == InitFetch /\ [][NextFetch]_vars

SpecShare == InitShare /\ [][NextFetch]_vars

(***************************************************************************)
(* HTTP.isRetryableError as a step: one error object in, one verdict out.  *)
(***************************************************************************)
FetchIdle ==
  /\ config = [retries |-> Undef, backoff |-> Undef, timeout |-> Undef]
  /\ live = {}
  /\ InitCall

InitClassify ==
  /\ cerr \in ErrorObjects
  /\ cres = "unset"
  /\ FetchIdle
  /\ SearchIdle
  /\ GetIdle
  /\ ConfigIdle

Classify ==
  /\ cres = "unset"
  /\ cres' = IF IsRetryableError(cerr) THEN "retry" ELSE "fail"
  /\ UNCHANGED <<cerr, fetchVars, searchVars, getVars, cfgVars>>

NextClassify == Classify

SpecClassify == InitClassify /\ [][NextClassify]_vars

(***************************************************************************)
(* SearchOperator.execute and createPaginatedStream.                       *)
(***************************************************************************)
OpTimeout == 8000      \* the operator timeout used by the tests

Min(a, b) == IF a <= b THEN a ELSE b
Max(a, b) == IF a >= b THEN a ELSE b

RECURSIVE Sum(_)
Sum(q) == IF q = <<>> THEN 0 ELSE Head(q) + Sum(Tail(q))

\* A cursor chain of n pages of s results, the last one holding `last`
\* results; the last page ends the chain with has_more = false ("nomore")
\* or with has_more = true and no next_cursor ("nocursor").
Chain(n, s, last, end) ==
  [i \in 1..n |-> [len |-> IF i < n THEN s ELSE last,
                   has_more |-> (i < n) \/ end = "nocursor",
                   next_cursor |-> i < n]]

Lens(src) == [i \in 1..Len(src) |-> src[i].len]

Chains == {Chain(n, s, last, end) : n \in 1..MaxPages, s \in 1..MaxPageSize,
                                     last \in 1..MaxPageSize,
                                     end \in {"nomore", "nocursor"}}

UniformChains == {c \in Chains : \A i \in 1..Len(c) : c[i].len <= c[1].len}

\* The run of the test suite: pages of 11, 11 and 8 results.
TestChain == Chain(3, 11, 8, "nomore")

\* Faulty variant: the limit is compared after one more page.
StopPaginationLate(response, state) ==
  \/ opConfig.pages # Undef /\ state.requests > opConfig.pages
  \/ opConfig.results # Undef /\ state.items > opConfig.results
  \/ ~response.has_more
  \/ ~response.next_cursor

\* Faulty variant: the run gives up after the second page.
StopPaginationEarly(response, state) ==
  \/ opConfig.pages # Undef /\ state.requests >= opConfig.pages
  \/ opConfig.results # Undef /\ state.items >= opConfig.results
  \/ ~response.has_more
  \/ ~response.next_cursor
  \/ state.requests >= 2

\* The condition of expand under which no further page is requested.
StopPagination(response, state) ==
  \/ opConfig.pages # Undef /\ state.requests >= opConfig.pages
  \/ opConfig.results # Undef /\ state.items >= opConfig.results
  \/ ~response.has_more
  \/ ~response.next_cursor

\* Faulty variant of the map: the page is passed on as received.
SliceResultsNone(response, state) == response.len

\* The map after expand: results.slice(0, remaining) under limits.results.
SliceResults(response, state) ==
  IF opConfig.results # Undef /\ opConfig.results # 0
  THEN LET remaining == Max(0, opConfig.results - state.items)
       IN IF remaining > 0 THEN Min(response.len, remaining) ELSE response.len
  ELSE response.len

\* Faulty variant: the cursor of the page just received is sent again.
NextCursorSame(response, page) == page

\* fetchPage({...request, start_cursor: response.next_cursor}): the cursor of
\* the page that follows the one received.
NextCursor(response, page) == page + 1

\* reporter.apply(add("requests", 1), add("items", n), set("cursor", c), set("stage", ...))
ApplyPage(rep, response, page) ==
  [rep EXCEPT !.requests = @ + 1, !.items = @ + response.len,
              !.cursor = IF response.next_cursor THEN page + 1 ELSE 0,
              !.stage = "requesting"]

\* Network calls issued by the whole operation: every page call of data$,
\* every retry of one, and the call behind raw$.
NetCalls == pageRequests + retriesIssued + (IF rawSt # "unsub" THEN 1 ELSE 0)

\* Network calls in flight.
InFlight == (IF cur.phase = "network" THEN 1 ELSE 0) + (IF rawSt = "network" THEN 1 ELSE 0)

\* HTTP.post("/search", {baseUrl, timeout, headers, body}): retries is not
\* passed on, so every page call retries config.retries ?? 3 times.
PageRetries == DefaultRetries

InitSearch ==
  /\ \/ /\ source \in UniformChains
        /\ opConfig \in [results : {Undef} \cup (0..MaxResults),
                         pages : {Undef} \cup (0..MaxPageLimit),
                         timeout : {Undef, OpTimeout}]
     \/ /\ source = TestChain
        /\ opConfig \in [results : {Undef, 25}, pages : {Undef}, timeout : {Undef}]
  /\ httpConfig = [retries |-> MaxRetries, backoff |-> BaseBackoff]
  /\ opReporter = [stage |-> "requesting", requests |-> 0, items |-> 0, errors |-> 0,
                   cursor |-> 0, message |-> "none"]
  /\ cancelSt = "open"
  /\ signalFired = FALSE
  /\ timerSt = IF opConfig.timeout # Undef THEN "armed" ELSE "off"
  /\ dataSt = "unsub"
  /\ takeUntilOn = FALSE
  /\ cur = [page |-> 0, phase |-> "none", retryCount |-> 0]
  /\ rawSt = "unsub"
  /\ pageRequests = 0
  /\ retriesIssued = 0
  /\ emitted = <<>>
  /\ FetchIdle
  /\ ClassifyIdle
  /\ GetIdle
  /\ ConfigIdle

\* The state execute() returns in: nothing subscribed, the timer armed if set.
SearchStart ==
  /\ cancelSt = "open"
  /\ signalFired = FALSE
  /\ timerSt = IF opConfig.timeout # Undef THEN "armed" ELSE "off"
  /\ dataSt = "unsub"
  /\ takeUntilOn = FALSE
  /\ cur = [page |-> 0, phase |-> "none", retryCount |-> 0]
  /\ rawSt = "unsub"
  /\ pageRequests = 0
  /\ retriesIssued = 0
  /\ emitted = <<>>
  /\ FetchIdle
  /\ ClassifyIdle
  /\ GetIdle
  /\ ConfigIdle

\* A run with one limit, given a Reporter that is fresh or that an earlier
\* run left with counted requests and items.
InitReuse ==
  /\ source \in UniformChains
  /\ opConfig \in [results : {Undef}, pages : 1..MaxPageLimit, timeout : {Undef, OpTimeout}]
                  \cup [results : 1..MaxResults, pages : {Undef}, timeout : {Undef, OpTimeout}]
  /\ httpConfig = [retries |-> MaxRetries, backoff |-> BaseBackoff]
  /\ opReporter \in [stage : {"requesting", "complete"}, requests : {0, MaxReused},
                      items : {0, MaxReused}, errors : {0}, cursor : {0}, message : {"none"}]
  /\ SearchStart

\* A run without limits under an HTTPConfig with a retry budget of its own.
InitPageRetry ==
  /\ source \in UniformChains
  /\ opConfig \in [results : {Undef}, pages : {Undef}, timeout : {Undef, OpTimeout}]
  /\ httpConfig \in [retries : 0..MaxRetries, backoff : {Undef, BaseBackoff}]
  /\ opReporter = [stage |-> "requesting", requests |-> 0, items |-> 0, errors |-> 0,
                   cursor |-> 0, message |-> "none"]
  /\ SearchStart

\* data$ is subscribed: defer calls fetchPage(request) and subscribes its
\* data$, takeUntil starts listening to cancel$.
SubscribeSearchData ==
  /\ dataSt = "unsub"
  /\ dataSt' = "active"
  /\ takeUntilOn' = (cancelSt = "open")
  /\ cur' = [page |-> 1, phase |-> "network", retryCount |-> 0]
  /\ pageRequests' = pageRequests + 1
  /\ UNCHANGED <<opConfig, httpConfig, source, opReporter, cancelSt, signalFired, timerSt, rawSt,
                 retriesIssued, emitted>>
  /\ UNCHANGED <<fetchVars, classVars, getVars, cfgVars>>

\* raw$ is subscribed: it is the raw$ of a second fetchPage(request).
SubscribeSearchRaw ==
  /\ rawSt = "unsub"
  /\ rawSt' = "network"
  /\ UNCHANGED <<opConfig, httpConfig, source, opReporter, cancelSt, signalFired, timerSt, dataSt,
                 takeUntilOn, cur, pageRequests, retriesIssued, emitted>>
  /\ UNCHANGED <<fetchVars, classVars, getVars, cfgVars>>

\* The call behind raw$ is answered: the raw response, or the fallback.
RawRespond(ok) ==
  /\ rawSt = "network"
  /\ rawSt' = IF ok THEN "ok" ELSE "fallback"
  /\ UNCHANGED <<opConfig, httpConfig, source, opReporter, cancelSt, signalFired, timerSt, dataSt,
                 takeUntilOn, cur, pageRequests, retriesIssued, emitted>>
  /\ UNCHANGED <<fetchVars, classVars, getVars, cfgVars>>

\* A page arrives: expand passes it to the map, then runs its projection,
\* which counts the page and either stops or requests the next page.
PageArrives ==
  /\ cur.phase = "network"
  /\ IF dataSt # "active"
     THEN /\ cur' = [cur EXCEPT !.phase = "none"]
          /\ UNCHANGED <<opReporter, dataSt, takeUntilOn, pageRequests, emitted>>
     ELSE LET response == source[cur.page]
              rep == ApplyPage(opReporter, response, cur.page)
          IN /\ emitted' = Append(emitted, SliceResults(response, opReporter))
             /\ takeUntilOn' = FALSE
             /\ IF StopPagination(response, rep)
                THEN /\ opReporter' = [rep EXCEPT !.stage = "complete"]
                     /\ dataSt' = "done"
                     /\ cur' = [cur EXCEPT !.phase = "none"]
                     /\ UNCHANGED pageRequests
                ELSE /\ opReporter' = rep
                     /\ cur' = [page |-> NextCursor(response, cur.page), phase |-> "network",
                                 retryCount |-> 0]
                     /\ pageRequests' = pageRequests + 1
                     /\ UNCHANGED dataSt
  /\ UNCHANGED <<opConfig, httpConfig, source, cancelSt, signalFired, timerSt, rawSt, retriesIssued>>
  /\ UNCHANGED <<fetchVars, classVars, getVars, cfgVars>>

\* A page call fails: a retryable failure is retried by the page's own
\* HTTP.fetch while its budget lasts, any other failure ends data$.
PageFails(retryable) ==
  /\ cur.phase = "network"
  /\ IF dataSt # "active"
     THEN /\ cur' = [cur EXCEPT !.phase = "none"]
          /\ UNCHANGED <<dataSt, takeUntilOn>>
     ELSE IF retryable /\ cur.retryCount < PageRetries
     THEN /\ cur' = [cur EXCEPT !.phase = "backoff", !.retryCount = @ + 1]
          /\ UNCHANGED <<dataSt, takeUntilOn>>
     ELSE /\ cur' = [cur EXCEPT !.phase = "none"]
          /\ dataSt' = "error"
          /\ takeUntilOn' = FALSE
  /\ UNCHANGED <<opConfig, httpConfig, source, opReporter, cancelSt, signalFired, timerSt, rawSt,
                 pageRequests, retriesIssued, emitted>>
  /\ UNCHANGED <<fetchVars, classVars, getVars, cfgVars>>

\* The backoff wait of a page call is over: the call is issued again.
PageRetry ==
  /\ cur.phase = "backoff"
  /\ cur' = [cur EXCEPT !.phase = "network"]
  /\ retriesIssued' = retriesIssued + 1
  /\ UNCHANGED <<opConfig, httpConfig, source, opReporter, cancelSt, signalFired, timerSt, dataSt,
                 takeUntilOn, rawSt, pageRequests, emitted>>
  /\ UNCHANGED <<fetchVars, classVars, getVars, cfgVars>>

\* cancel$.next(): takeUntil, if it still listens, completes data$ and
\* unsubscribes from the page call; a waiting retry is dropped with it.
CancelNext ==
  /\ signalFired' = TRUE
  /\ IF takeUntilOn /\ dataSt = "active"
     THEN /\ dataSt' = "cancelled"
          /\ takeUntilOn' = FALSE
          /\ cur' = IF cur.phase = "backoff" THEN [cur EXCEPT !.phase = "none"] ELSE cur
     ELSE UNCHANGED <<dataSt, takeUntilOn, cur>>

\* cancel() of the returned HTTPResponse.
CancelSearch ==
  /\ ~signalFired
  /\ CancelNext
  /\ timerSt' = IF timerSt = "armed" THEN "cancelled" ELSE timerSt
  /\ UNCHANGED <<opConfig, httpConfig, source, opReporter, cancelSt, rawSt, pageRequests, retriesIssued,
                 emitted>>
  /\ UNCHANGED <<fetchVars, classVars, getVars, cfgVars>>

\* timer(operatorConfig.timeout) fires: stage error, cancel$.next(), complete().
GlobalTimeout ==
  /\ timerSt = "armed"
  /\ timerSt' = "fired"
  /\ opReporter' = [opReporter EXCEPT !.stage = "error", !.message = "timed out"]
  /\ CancelNext
  /\ cancelSt' = "stopped"
  /\ UNCHANGED <<opConfig, httpConfig, source, rawSt, pageRequests, retriesIssued, emitted>>
  /\ UNCHANGED <<fetchVars, classVars, getVars, cfgVars>>

NextSearch ==
  \/ SubscribeSearchData
  \/ SubscribeSearchRaw
  \/ \E ok \in BOOLEAN : RawRespond(ok)
  \/ PageArrives
  \/ \E retryable \in BOOLEAN : PageFails(retryable)
  \/ PageRetry
  \/ CancelSearch
  \/ GlobalTimeout

SpecSearch == InitSearch /\ [][NextSearch]_vars

SpecReuse == InitReuse /\ [][NextSearch]_vars

SpecPageRetry == InitPageRetry /\ [][NextSearch]_vars

(***************************************************************************)
(* GetOperator: execute, page, database, block, property.                  *)
(***************************************************************************)
MaxGetRequests == 4    \* requests issued by the data$ of one GetOperator call

PageIds == {"p1", "p2"}
PropertyIds == {"title", "tags"}
NoId == "none"

Throws == <<"throws">>

\* getEndpoint(resource, values): the path, or the error it throws.
GetEndpoint(resource, values) ==
  CASE resource = "database" -> <<"databases", values.id>>
    [] resource = "page" -> <<"pages", values.id>>
    [] resource = "block" -> <<"blocks", values.id>>
    [] resource = "property" ->
         IF "page_id" \in DOMAIN values /\ "property_id" \in DOMAIN values
         THEN <<"pages", values.page_id, "properties", values.property_id>>
         ELSE Throws
    [] OTHER -> Throws

\* The request object a call hands to #single or #paginated.
Request(call) ==
  IF call.resource = "property"
  THEN [resource |-> call.resource, id |-> call.id, property_id |-> call.property_id]
  ELSE [resource |-> call.resource, id |-> call.id]

\* execute sends a property request with a property_id to #paginated; every
\* other request, and page(), database(), block(), property(), go to #single.
Route(call) ==
  IF call.method = "execute" /\ call.resource = "property"
     /\ "property_id" \in DOMAIN Request(call)
  THEN "paginated" ELSE "single"

\* #single: getEndpoint(request.resource, request).
SingleEndpoint(call) == GetEndpoint(call.resource, Request(call))

\* fetchPage of #paginated: getEndpoint(req.resource, {page_id: req.id,
\* property_id: req.property_id}).
PaginatedEndpoint(call) ==
  GetEndpoint(call.resource, [page_id |-> call.id, property_id |-> call.property_id])

Endpoint(call) ==
  IF Route(call) = "paginated" THEN PaginatedEndpoint(call) ELSE SingleEndpoint(call)

\* The cursor a request of fetchPage carries to the server: the endpoint is
\* built from id and property_id and the config is httpConfig, so the
\* start_cursor of the request object is not sent.
RequestCursor(start_cursor) == 0

\* The page the server answers a cursor with; cursor 0 is no cursor, and the
\* next_cursor of page i is i.
ServerPage(cursor) == gSource[cursor + 1]

\* A property list of several pages, or a single property item.
ListChains == {[i \in 1..Len(c) |-> [list |-> TRUE, len |-> c[i].len,
                                      has_more |-> c[i].has_more,
                                      next_cursor |-> c[i].next_cursor]] : c \in Chains}

ItemSource == <<[list |-> FALSE, len |-> 1, has_more |-> FALSE, next_cursor |-> FALSE]>>

Calls ==
  {[method |-> "execute", resource |-> r, id |-> i, property_id |-> NoId, hasReporter |-> h] :
     r \in {"page", "database", "block"}, i \in PageIds, h \in BOOLEAN}
  \cup {[method |-> "execute", resource |-> "property", id |-> i, property_id |-> q,
         hasReporter |-> h] : i \in PageIds, q \in PropertyIds, h \in BOOLEAN}
  \cup {[method |-> r, resource |-> r, id |-> i, property_id |-> NoId, hasReporter |-> h] :
          r \in {"page", "database", "block"}, i \in PageIds, h \in BOOLEAN}
  \cup {[method |-> "property", resource |-> "property", id |-> i, property_id |-> q,
         hasReporter |-> h] : i \in PageIds, q \in PropertyIds, h \in BOOLEAN}

InitGet ==
  /\ gCall \in Calls
  /\ IF Route(gCall) = "paginated"
     THEN /\ gSource \in ListChains \cup {ItemSource}
          /\ gLimits \in [results : {Undef} \cup (0..MaxResults),
                          pages : {Undef} \cup (0..MaxPageLimit)]
     ELSE /\ gSource = ItemSource
          /\ gLimits = [results |-> Undef, pages |-> Undef]
  /\ gOpts \in IF gCall.method = "execute"
               THEN [hasCancel : {TRUE}, timeout : {Undef, OpTimeout}]
               ELSE [hasCancel : BOOLEAN, timeout : {Undef}]
  /\ gCancelAt = "no"
  /\ gTimer = "off"
  /\ gPhase = "idle"
  /\ gReporter = [stage |-> "requesting", requests |-> 0, items |-> 0, errors |-> 0,
                  message |-> "none"]
  /\ gData = "unsub"
  /\ gCur = [cursor |-> 0, n |-> 0, phase |-> "none"]
  /\ gUrls = <<>>
  /\ gEmitted = <<>>
  /\ FetchIdle
  /\ ClassifyIdle
  /\ SearchIdle
  /\ ConfigIdle

\* The call itself: execute starts its timer when operatorConfig.timeout is
\* set, then the endpoint of the first request is built at once, and an error
\* of getEndpoint is thrown to the caller.
GetCall ==
  /\ gPhase = "idle"
  /\ gPhase' = IF Endpoint(gCall) = Throws THEN "threw" ELSE "built"
  /\ gTimer' = IF gCall.method = "execute" /\ gOpts.timeout # Undef THEN "armed" ELSE "off"
  /\ UNCHANGED <<gCall, gLimits, gOpts, gCancelAt, gSource, gReporter, gData, gCur, gUrls,
                 gEmitted>>
  /\ UNCHANGED <<fetchVars, classVars, searchVars, cfgVars>>

\* data$ is subscribed: the first request is issued.
GetSubscribe ==
  /\ gPhase = "built"
  /\ gData = "unsub"
  /\ gData' = "active"
  /\ gCur' = [cursor |-> 0, n |-> 1, phase |-> "network"]
  /\ gUrls' = Append(gUrls, [path |-> Endpoint(gCall), cursor |-> 0])
  /\ UNCHANGED <<gCall, gLimits, gOpts, gCancelAt, gTimer, gSource, gPhase, gReporter,
                 gEmitted>>
  /\ UNCHANGED <<fetchVars, classVars, searchVars, cfgVars>>

\* reporter?.apply(...): nothing is recorded without a reporter.
Apply(rep) == IF gCall.hasReporter THEN rep ELSE gReporter

\* The map of #paginated: results.slice(0, remaining) when fewer remain.
GetSliceResults(response) ==
  IF response.list /\ gLimits.results # Undef /\ gLimits.results # 0
  THEN LET remaining == Max(0, gLimits.results - gReporter.items)
       IN IF remaining < response.len THEN remaining ELSE response.len
  ELSE response.len

\* The condition of the expand of #paginated under which it stops; state is
\* the snapshot taken before the page is counted.
GetStopPagination(response, state) ==
  \/ gCall.hasReporter /\ gLimits.pages # Undef /\ state.requests >= gLimits.pages
  \/ gCall.hasReporter /\ gLimits.results # Undef /\ state.items >= gLimits.results
  \/ ~response.has_more
  \/ ~response.next_cursor

\* A response arrives. #single: tap counts the item and completes.
\* #paginated: the response goes to the map, then the projection of expand
\* either counts the page and stops, or asks for the next page.
GetPageArrives ==
  /\ gData = "active"
  /\ gCur.phase = "network"
  /\ LET response == ServerPage(gCur.cursor) IN
     IF Route(gCall) = "single"
     THEN /\ gReporter' = Apply([gReporter EXCEPT !.items = @ + 1, !.stage = "complete"])
          /\ gEmitted' = Append(gEmitted, response.len)
          /\ gData' = "done"
          /\ gCur' = [gCur EXCEPT !.phase = "none"]
          /\ UNCHANGED gUrls
     ELSE /\ gEmitted' = Append(gEmitted, GetSliceResults(response))
          /\ IF ~response.list
             THEN /\ gReporter' = Apply([gReporter EXCEPT !.stage = "complete",
                                                          !.requests = @ + 1, !.items = @ + 1])
                  /\ gData' = "done"
                  /\ gCur' = [gCur EXCEPT !.phase = "none"]
                  /\ UNCHANGED gUrls
             ELSE IF GetStopPagination(response, gReporter)
             THEN /\ gReporter' = Apply([gReporter EXCEPT !.stage = "complete",
                                                          !.requests = @ + 1,
                                                          !.items = @ + response.len])
                  /\ gData' = "done"
                  /\ gCur' = [gCur EXCEPT !.phase = "none"]
                  /\ UNCHANGED gUrls
             ELSE /\ gCur.n < MaxGetRequests
                  /\ gReporter' = Apply([gReporter EXCEPT !.stage = "paginating"])
                  /\ gCur' = [cursor |-> RequestCursor(gCur.cursor + 1), n |-> gCur.n + 1,
                              phase |-> "network"]
                  /\ gUrls' = Append(gUrls, [path |-> Endpoint(gCall),
                                             cursor |-> RequestCursor(gCur.cursor + 1)])
                  /\ UNCHANGED gData
  /\ UNCHANGED <<gCall, gLimits, gOpts, gCancelAt, gTimer, gSource, gPhase>>
  /\ UNCHANGED <<fetchVars, classVars, searchVars, cfgVars>>

\* The catchError of #single: it adds the errors the reporter of the HTTP call
\* counted, which are the failed attempts of that call.
SingleCatchError(rep, httpErrors) ==
  [rep EXCEPT !.stage = "error", !.errors = @ + httpErrors, !.message = "failed"]

\* The catchError around the data$ of a follow-up page of #paginated.
InnerCatchError(rep) ==
  [rep EXCEPT !.stage = "error", !.errors = @ + 1, !.message = "pagination failed"]

\* The catchError at the end of the pipe of #paginated.
OuterCatchError(rep) ==
  [rep EXCEPT !.stage = "error", !.errors = @ + 1, !.message = "failed"]

\* A request fails for good, after httpErrors failed attempts of HTTP.fetch.
GetPageFails(httpErrors) ==
  /\ gData = "active"
  /\ gCur.phase = "network"
  /\ gData' = "error"
  /\ gCur' = [gCur EXCEPT !.phase = "none"]
  /\ gReporter' =
       IF Route(gCall) = "single" THEN Apply(SingleCatchError(gReporter, httpErrors))
       ELSE IF gCur.n = 1 THEN Apply(OuterCatchError(gReporter))
       ELSE Apply(OuterCatchError(InnerCatchError(gReporter)))
  /\ UNCHANGED <<gCall, gLimits, gOpts, gCancelAt, gTimer, gSource, gPhase, gUrls, gEmitted>>
  /\ UNCHANGED <<fetchVars, classVars, searchVars, cfgVars>>

\* takeUntil(cancel$ ?? EMPTY) sits on the data$ of the first request, before
\* expand: it hears a signal while that request is pending, provided a cancel$
\* exists and was not completed before data$ was subscribed.
GetListening ==
  /\ gOpts.hasCancel
  /\ gData = "active"
  /\ gCur.n = 1
  /\ gTimer # "fired"

\* cancel$.next() as data$ sees it: a listening takeUntil completes data$
\* without an emission; the request in flight is not aborted.
GetSignal ==
  /\ gData' = IF GetListening THEN "cancelled" ELSE gData
  /\ gCur' = IF GetListening THEN [gCur EXCEPT !.phase = "none"] ELSE gCur

\* cancel() of the HTTPResponse: () => cancel$?.next(). Without a cancel$ it
\* does nothing; with the cancelSubject of execute it also stops the timer.
GetCancel ==
  /\ gPhase = "built"
  /\ gCancelAt = "no"
  /\ gCancelAt' = gData
  /\ IF gOpts.hasCancel
     THEN /\ GetSignal
          /\ gTimer' = IF gTimer = "armed" THEN "cancelled" ELSE gTimer
     ELSE UNCHANGED <<gData, gCur, gTimer>>
  /\ UNCHANGED <<gCall, gLimits, gOpts, gSource, gPhase, gReporter, gUrls, gEmitted>>
  /\ UNCHANGED <<fetchVars, classVars, searchVars, cfgVars>>

\* The timer of execute elapses: reporter!.apply(...), cancelSubject.next(),
\* cancelSubject.complete(). Without a reporter the first statement throws a
\* TypeError and the two statements after it are not reached.
GetGlobalTimeout ==
  /\ gTimer = "armed"
  /\ IF gCall.hasReporter
     THEN /\ gReporter' = [gReporter EXCEPT !.stage = "error", !.message = "timed out"]
          /\ GetSignal
          /\ gTimer' = "fired"
     ELSE /\ gTimer' = "threw"
          /\ UNCHANGED <<gReporter, gData, gCur>>
  /\ UNCHANGED <<gCall, gLimits, gOpts, gCancelAt, gSource, gPhase, gUrls, gEmitted>>
  /\ UNCHANGED <<fetchVars, classVars, searchVars, cfgVars>>

NextGet ==
  \/ GetCall
  \/ GetSubscribe
  \/ GetPageArrives
  \/ \E httpErrors \in 1..(MaxRetries + 1) : GetPageFails(httpErrors)
  \/ GetCancel
  \/ GetGlobalTimeout

SpecGet == InitGet /\ [][NextGet]_vars

(***************************************************************************)
(* new HTTPConfig(config).                                                 *)
(***************************************************************************)
\* The headers the constructor falls back to.
DefaultHeaders ==
  [k \in {"Content-Type", "Notion-Version"} |->
     IF k = "Content-Type" THEN "application/json" ELSE "NOTION_CONFIG_DEFAULTS.version"]

DefaultBaseUrl == "NOTION_CONFIG_DEFAULTS.baseUrl"

\* The header maps a caller passes in: any of these entries.
CallerEntries ==
  [k \in {"Content-Type", "Notion-Version", "X-Trace"} |->
     CASE k = "Content-Type" -> "text/plain"
       [] k = "Notion-Version" -> "2021-05-13"
       [] OTHER -> "trace-1"]

CallerHeaders == {[k \in S |-> CallerEntries[k]] : S \in SUBSET DOMAIN CallerEntries}

\* headers.Authorization = `Bearer ${token}`
WithAuthorization(headers, token) ==
  [k \in DOMAIN headers \cup {"Authorization"} |->
     IF k = "Authorization" THEN "Bearer " \o token ELSE headers[k]]

\* The constructor of HTTPConfig.
HTTPConfig(arg) ==
  LET headers == IF arg.headers.given THEN arg.headers.map ELSE DefaultHeaders
  IN [built |-> TRUE,
      baseUrl |-> IF arg.baseUrl # "none" THEN arg.baseUrl ELSE DefaultBaseUrl,
      headers |-> IF arg.token # "none" THEN WithAuthorization(headers, arg.token)
                  ELSE headers,
      method |-> arg.method,
      timeout |-> arg.timeout]

InitConfig ==
  /\ hArg \in [baseUrl : {"none", "https://api.notion.com/v1"},
               headers : {[given |-> FALSE, map |-> EmptyMap]}
                         \cup {[given |-> TRUE, map |-> m] : m \in CallerHeaders},
               token : {"none", "secret"},
               method : {"none", "GET", "POST"},
               timeout : {Undef, CallTimeout}]
  /\ hConfig = [built |-> FALSE, baseUrl |-> "none", headers |-> EmptyMap, method |-> "none",
                timeout |-> Undef]
  /\ FetchIdle
  /\ ClassifyIdle
  /\ SearchIdle
  /\ GetIdle

Construct ==
  /\ ~hConfig.built
  /\ hConfig' = HTTPConfig(hArg)
  /\ UNCHANGED <<hArg, fetchVars, classVars, searchVars, getVars>>

NextConfig == Construct

SpecConfig == InitConfig /\ [][NextConfig]_vars

(***************************************************************************)
(* Properties of HTTP.fetch.                                               *)
(***************************************************************************)
\* The call is consumed through data$ alone and nobody aborted it.
Solo == cons["r1"].st = "idle" /\ cons["d2"].st = "idle" /\ ~aborted

\* The failures the specification calls non-retryable: a 4xx status, 500, 501,
\* or a body that does not parse on a successful status.
SpecNonRetryable(o) ==
  \/ o.kind = "badjson"
  \/ o.kind = "http" /\ o.status \notin {502, 503, 504}

\* The failures the specification calls retryable: network error, 502, 503, 504.
SpecRetryable(o) ==
  \/ o.kind = "neterr"
  \/ o.kind = "http" /\ o.status \in {502, 503, 504}

Budget == IF config.retries = Undef THEN 3 ELSE config.retries

\* C4: a failure of a non-retryable class (4xx, 500, 501, parse failure) is
\* the only and last network attempt: no backoff wait follows it, data$ errors
\* with that failure and the reporter ends with stage error.
C4_NonRetryableFailsAtOnce ==
  Solo =>
    \A i \in 1..Len(hist) :
      SpecNonRetryable(hist[i]) =>
        /\ attempts = i
        /\ cons["d1"].st = "err"
        /\ cons["d1"].err = ErrorOf(hist[i], i)
        /\ Len(cons["d1"].waits) = i - 1
        /\ reporter.stage = "error"

\* C5: with only retryable failures the number of network attempts is
\* min(retries + 1, index of the first success), and the attempts are
\* sequential: each further attempt starts after the previous one failed and
\* its backoff wait elapsed.
C5_AttemptCount ==
  LET d == cons["d1"]
      oks == {i \in 1..Len(hist) : hist[i].kind = "ok"}
  IN (Solo /\ \A i \in 1..Len(hist) : hist[i].kind # "ok" => SpecRetryable(hist[i])) =>
       /\ attempts <= Budget + 1
       /\ d.st = "ok" => oks = {attempts} /\ d.out = attempts
       /\ d.st = "err" => oks = {} /\ attempts = Budget + 1
       /\ d.st = "backoff" => fetchState = "none" /\ Len(hist) = attempts
                              /\ Len(d.waits) = attempts /\ attempts <= Budget
       /\ fetchState = "network" => d.st = "sub" /\ Len(hist) = attempts - 1
                                    /\ Len(d.waits) = attempts - 1

\* C5 witness: a budget of at least one retry is used up by retryable failures.
C5_Witness ==
  /\ Solo /\ Budget >= 1
  /\ cons["d1"].st = "err"
  /\ attempts = Budget + 1
  /\ \A i \in 1..Len(hist) : SpecRetryable(hist[i])

\* C6: with base backoff b the wait after the k-th consecutive failure
\* (k = 0, 1, 2, ...) is b * 2^k.
C6_ExponentialWaits ==
  (Solo /\ config.backoff # Undef) =>
    \A k \in 1..Len(cons["d1"].waits) :
      cons["d1"].waits[k] = config.backoff * Pow2(k - 1)

\* C8: when the first network attempt succeeds the request is issued exactly
\* once, whoever subscribes to data$ and raw$ and whenever.
C8_SingleRequest ==
  (Len(hist) >= 1 /\ hist[1].kind = "ok") =>
    /\ attempts = 1
    /\ \A c \in Consumers : cons[c].st \in {"idle", "ok"}
    /\ \A c \in Consumers : cons[c].st = "ok" => cons[c].out = 1

\* C8 witness: one call serves a consumer that started it, one that joined it
\* in flight and one that subscribed after it completed.
C8_Witness ==
  /\ attempts = 1
  /\ \A c \in Consumers : cons[c].st = "ok"
  /\ cons["d1"].via = "connect" /\ cons["r1"].via = "join" /\ cons["d2"].via = "replay"

\* C9: raw$ and data$ end with the same outcome of the same execution: the raw
\* response of the attempt whose payload data$ delivered, or a failure both.
C9_SameOutcome ==
  LET d == cons["d1"]
      r == cons["r1"]
  IN /\ (d.st = "ok" /\ r.st \in {"ok", "fallback"}) => (r.st = "ok" /\ r.out = d.out)
     /\ (d.st \in {"err", "timeout"} /\ r.st \in {"ok", "fallback"}) => r.st = "fallback"

\* The network calls that failed so far.
Failed == {i \in 1..Len(hist) : hist[i].kind # "ok"}

\* C12: with a single data$ subscriber the errors counter of the reporter is
\* incremented once per failed attempt and nowhere else: it equals the number
\* of failed attempts at every moment, so 1 after a failure that is not
\* retried, retries + 1 after an exhausted budget and k after a success that
\* follows k failures; the catch-all adds nothing.
C12_ErrorsCountFailures ==
  LET d == cons["d1"] IN
  Solo =>
    /\ reporter.errors = Cardinality(Failed)
    /\ d.st = "ok" => reporter.errors = attempts - 1
    /\ d.st = "err" => reporter.errors = attempts
    /\ (d.st = "err" /\ ~IsRetryableError(d.err)) => reporter.errors = Len(d.waits) + 1
    /\ (d.st = "err" /\ IsRetryableError(d.err)) => reporter.errors = EffRetries + 1

\* C12 witness: data$ failed after retries, with every failed attempt counted.
C12_Witness ==
  /\ Solo
  /\ cons["d1"].st = "err"
  /\ reporter.errors >= 2
  /\ reporter.errors = Cardinality(Failed)

\* C13: when retryable failures exhaust the budget, data$ errors with the
\* error of the last attempt made and the final message of the reporter is
\* the message of that error.
C13_LastErrorSurfaces ==
  LET d == cons["d1"]
      n == Len(hist)
  IN (Solo /\ d.st = "err" /\ IsRetryableError(d.err)) =>
       /\ n = EffRetries + 1
       /\ d.err = ErrorOf(hist[n], n)
       /\ reporter.stage = "error"
       /\ reporter.message = [kind |-> "error", delay |-> 0, err |-> ErrorOf(hist[n], n)]

\* C13 witness: the budget ran out on a failure that differs from the first.
C13_Witness ==
  /\ Solo
  /\ cons["d1"].st = "err"
  /\ IsRetryableError(cons["d1"].err)
  /\ Len(hist) >= 2
  /\ hist[1] # hist[Len(hist)]
  /\ cons["d1"].err.attempt = Len(hist)

C15_TimeoutIsRetried ==
  cons["d1"].st = "timeout" => cons["d1"].retryCount >= EffRetries

\* The calls that failed for a reason other than the abort of cancel().
FailedUnaborted == {i \in 1..Len(hist) : hist[i].kind \notin {"ok", "aborted"}}

\* C18: cancel() on a call in flight ends it in a state other than error: the
\* abort is not retried, no backoff wait or attempt follows, the errors
\* counter is not incremented and the stage does not become error.
C18_CancelIsNotAnError ==
  LET d == cons["d1"] IN
  (config.timeout = Undef /\ aborted /\ AbortedOutcome \in {hist[i] : i \in 1..Len(hist)}) =>
    /\ d.st \notin {"backoff", "err"}
    /\ reporter.stage # "error"
    /\ reporter.errors = Cardinality(FailedUnaborted)

\* C21: stage error is entered only by a terminal failure: once the stage of
\* the reporter has been error it is never set to retry or complete later in
\* the same call.
C21_ErrorStageIsFinal ==
  Solo =>
    \A i \in 1..Len(reporter.log) : \A j \in 1..Len(reporter.log) :
      (i < j /\ reporter.log[i] = "error") => reporter.log[j] \notin {"retry", "complete"}

\* C27: the terminal outcome of a call, success or failure, is kept: a
\* consumer that subscribes to data$ after it receives the same outcome at
\* once and no network request is issued for it.
C27_OutcomeMemoized ==
  [][(/\ cons["d1"].st \in {"ok", "err"}
      /\ cons["r1"].st = "idle" /\ ~aborted /\ fetchState = "none"
      /\ cons["d2"].st = "idle" /\ cons'["d2"].st # "idle")
     => (/\ attempts' = attempts
         /\ cons'["d2"].st = cons["d1"].st
         /\ cons'["d2"].out = cons["d1"].out
         /\ cons'["d2"].err = cons["d1"].err)]_vars

\* C28: the backoff waits of one call never shrink from one retry to the
\* next, with a configured backoff and with the default alike.
C28_WaitsNonDecreasing ==
  \A c \in DataConsumers :
    \A k \in 1..(Len(cons[c].waits) - 1) : cons[c].waits[k] <= cons[c].waits[k + 1]

\* C28 witness: two retries of a call with the default backoff have waited.
C28_Witness ==
  /\ config.backoff = Undef
  /\ Len(cons["d1"].waits) >= 2
  /\ cons["d1"].waits[1] < cons["d1"].waits[2]

\* C34: the delay announced in the message of the reporter for a retry
\* ("retrying after Xms: ...") is the delay waited before the next attempt.
C34_AnnouncedDelayIsWaited ==
  LET d == cons["d1"] IN
  (Solo /\ d.st = "backoff") =>
    /\ reporter.message.kind = "retrying"
    /\ reporter.message.delay = d.waits[Len(d.waits)]

Available == Sum(Lens(source))

\* C1: with limits.results = R >= 1 the results emitted on data$ add up to
\* min(R, results available); only the last emitted page is cut short, and
\* pages of 11/11/8 with R = 25 are emitted as 11, 11 and 3 after 3 requests.
C1_ResultLimit ==
  (opConfig.results # Undef /\ opConfig.results >= 1 /\ opConfig.pages = Undef) =>
    /\ Sum(emitted) <= opConfig.results
    /\ \A i \in 1..Len(emitted) :
         /\ emitted[i] <= source[i].len
         /\ i < Len(emitted) => emitted[i] = source[i].len
    /\ dataSt = "done" => Sum(emitted) = Min(opConfig.results, Available)
    /\ (dataSt = "done" /\ source = TestChain /\ opConfig.results = 25) =>
         (emitted = <<11, 11, 3>> /\ pageRequests = 3)

\* C1 witness: the run of pages 11/11/8 under R = 25 has completed.
C1_Witness ==
  /\ source = TestChain /\ opConfig.results = 25
  /\ dataSt = "done"
  /\ emitted = <<11, 11, 3>>

\* C2: with limits.pages = P >= 1 and at least P pages available, data$ issues
\* exactly P page requests and ends with reporter stage complete.
C2_PageLimit ==
  [][(/\ opConfig.pages # Undef /\ opConfig.pages >= 1 /\ opConfig.results = Undef
      /\ Len(source) >= opConfig.pages
      /\ dataSt' = "done")
     => (/\ pageRequests' = opConfig.pages
         /\ dataSt = "active" => opReporter'.stage = "complete")]_vars

\* C2 witness: the run stopped at the page limit while pages remained.
C2_Witness ==
  /\ opConfig.pages # Undef /\ opConfig.pages >= 1 /\ opConfig.results = Undef
  /\ dataSt = "done"
  /\ pageRequests = opConfig.pages
  /\ pageRequests >= 2
  /\ Len(source) > opConfig.pages
  /\ opReporter.stage = "complete"

\* C3: once the cancellation signal has fired no page request is issued,
\* whether it fired before data$ was subscribed, during the first page
\* request, or after pages were received.
C3_NoRequestAfterCancel ==
  [][signalFired => pageRequests' = pageRequests]_vars

\* C10: with raw$ and data$ both subscribed the network requests issued equal
\* the pages fetched (the reporter's requests counter), and no two network
\* calls are in flight together.
C10_OneCallPerPage ==
  /\ InFlight <= 1
  /\ (dataSt = "done" /\ rawSt # "unsub" /\ retriesIssued = 0) =>
       NetCalls = opReporter.requests

\* C11: within one run of data$ the request for page N+1 is issued only when
\* the response of page N has arrived, one request at a time, and the pages
\* are emitted in cursor order: the i-th page emitted is page i of the chain.
C11_SequentialPages ==
  [][/\ pageRequests' # pageRequests =>
          /\ pageRequests' = pageRequests + 1
          /\ pageRequests' = Len(emitted') + 1
          /\ cur'.page = pageRequests'
          /\ cur.phase # "backoff"
     /\ Len(emitted') # Len(emitted) =>
          /\ Len(emitted') = Len(emitted) + 1
          /\ cur.phase = "network"
          /\ cur.page = Len(emitted')]_vars

\* C11 witness: three pages were requested and emitted in turn, one of them
\* after a retried page call.
C11_Witness ==
  /\ dataSt = "done"
  /\ Len(emitted) = MaxPages
  /\ pageRequests = MaxPages
  /\ retriesIssued >= 1

\* C16: when the global timer of the operator fires while the run on data$
\* is not finished, data$ ends with an error instead of completing.
C16_GlobalTimeoutRejects ==
  [][(timerSt = "armed" /\ timerSt' = "fired" /\ dataSt = "active")
     => dataSt' = "error"]_vars

\* C17: when the cancellation signal fires while a page call is in flight,
\* that network call is aborted.
C17_CancelAbortsInFlight ==
  [][(~signalFired /\ signalFired' /\ cur.phase = "network")
     => cur'.phase # "network"]_vars

\* C19: once cancel() was called data$ does not end with an error, and the
\* reporter of the run takes neither stage error nor a counted error.
C19_CancelledRunEndsClean ==
  [][(signalFired' /\ timerSt' # "fired") =>
       /\ dataSt' = "error" => dataSt = "error"
       /\ opReporter'.stage = "error" => opReporter.stage = "error"
       /\ opReporter'.errors = opReporter.errors]_vars

\* C20: when a page call fails for good, the reporter returned by execute()
\* ends with stage error or timeout and a message that describes the failure.
C20_FailureReported ==
  dataSt = "error" =>
    /\ opReporter.stage \in {"error", "timeout"}
    /\ opReporter.message # "none"

\* C22: with no limits a chain of n pages is read in exactly n page requests,
\* every page is emitted as received, and when data$ completes the reporter
\* shows requests = n, items = all results and stage complete; pages of
\* 11/11/8 give 3 requests and 30 results.
C22_FullTraversal ==
  [][(opConfig.results = Undef /\ opConfig.pages = Undef /\ dataSt' = "done" /\ dataSt # "done")
     => /\ pageRequests' = Len(source)
        /\ emitted' = Lens(source)
        /\ opReporter'.requests = Len(source)
        /\ opReporter'.items = Available
        /\ opReporter'.stage = "complete"
        /\ source = TestChain => (opReporter'.requests = 3 /\ opReporter'.items = 30)]_vars

\* C22 witness: the unlimited run over pages of 11/11/8 has completed.
C22_Witness ==
  /\ source = TestChain
  /\ opConfig.results = Undef /\ opConfig.pages = Undef
  /\ dataSt = "done"
  /\ emitted = <<11, 11, 8>>
  /\ opReporter.requests = 3 /\ opReporter.items = 30 /\ opReporter.stage = "complete"

\* C23: limits.pages and limits.results are ceilings for every value from 0
\* up: the page requests issued never exceed limits.pages and the results
\* emitted never add up to more than limits.results.
C23_LimitsAreCeilings ==
  /\ opConfig.pages # Undef => pageRequests <= opConfig.pages
  /\ opConfig.results # Undef => Sum(emitted) <= opConfig.results

\* C31: once a run started with an operator timeout has finished with stage
\* complete, the stage and the message of its reporter never change again.
C31_CompleteIsFinal ==
  [][(opConfig.timeout # Undef /\ dataSt = "done" /\ opReporter.stage = "complete")
     => (opReporter'.stage = opReporter.stage /\ opReporter'.message = opReporter.message)]_vars

\* C32: limits count the current run only: with a Reporter that already
\* shows requests and items the run requests the pages and emits the results
\* a fresh Reporter gives, P pages under limits.pages = P and min(R, available)
\* results under limits.results = R.
C32_ReuseIndependent ==
  dataSt = "done" =>
    /\ (opConfig.pages # Undef /\ Len(source) >= opConfig.pages) =>
          (pageRequests = opConfig.pages /\ Len(emitted) = opConfig.pages)
    /\ opConfig.results # Undef => Sum(emitted) = Min(opConfig.results, Available)

\* C33: the retry budget of the HTTPConfig passed to execute bounds every
\* page request: a page call is retried at most httpConfig.retries times.
C33_PageRetryBudget ==
  cur.retryCount <= httpConfig.retries

(***************************************************************************)
(* Properties of GetOperator.                                              *)
(***************************************************************************)
\* The call is a property pagination with a reporter.
PropertyPagination == Route(gCall) = "paginated" /\ gCall.hasReporter

\* C24: in a property pagination every follow-up request carries the
\* next_cursor of the page before it, so the requests address successive
\* pages and a list of k pages is read in exactly k requests.
C24_CursorAdvances ==
  (PropertyPagination /\ gLimits.results = Undef /\ gLimits.pages = Undef) =>
    /\ \A i \in 1..Len(gUrls) : gUrls[i].cursor = i - 1
    /\ Len(gUrls) <= Len(gSource)
    /\ gData = "done" => Len(gUrls) = Len(gSource)

\* C25: in a property pagination with limits.results = R the results emitted
\* over all pages never add up to more than R.
C25_GetResultLimit ==
  (PropertyPagination /\ gLimits.results # Undef /\ gLimits.results >= 1
   /\ gLimits.pages = Undef) =>
    Sum(gEmitted) <= gLimits.results

\* C26: in a property pagination the terminal failure of a page request adds
\* exactly one to the errors counter of the reporter, for the first page and
\* for a later page alike.
C26_OneErrorPerFailure ==
  [][(PropertyPagination /\ gData = "active" /\ gData' = "error")
     => gReporter'.errors = gReporter.errors + 1]_vars

\* C30: property(id, property_id) issues its GET to
\* /pages/{id}/properties/{property_id}.
C30_PropertyEndpoint ==
  gCall.method = "property" =>
    /\ gPhase # "threw"
    /\ \A i \in 1..Len(gUrls) :
         gUrls[i].path = <<"pages", gCall.id, "properties", gCall.property_id>>

(***************************************************************************)
(* Properties of HTTPConfig.                                               *)
(***************************************************************************)
\* C29: an HTTPConfig built from caller headers holds every caller entry and
\* the defaults besides: Content-Type: application/json and the Notion-Version
\* header are there when the caller's map does not mention them.
C29_HeadersMerged ==
  (hConfig.built /\ hArg.headers.given) =>
    /\ \A k \in DOMAIN hArg.headers.map :
         k \in DOMAIN hConfig.headers /\ hConfig.headers[k] = hArg.headers.map[k]
    /\ \A k \in DOMAIN DefaultHeaders \ DOMAIN hArg.headers.map :
         k \in DOMAIN hConfig.headers /\ hConfig.headers[k] = DefaultHeaders[k]

(***************************************************************************)
(* Properties of HTTP.isRetryableError.                                    *)
(***************************************************************************)
\* C7: retryable are only network errors, timeout/abort errors and HTTP errors
\* with status 502, 503 or 504; an HTTP error with any other status is not
\* retryable whatever its message says.
C7_Classification ==
  cres # "unset" =>
    /\ (cerr.isHttpError /\ cerr.status # 0 /\ cerr.status \notin {502, 503, 504})
         => cres = "fail"
    /\ cres = "retry" =>
         \/ cerr.name = "TypeError" /\ cerr.msgFetch
         \/ cerr.name = "AbortError" \/ cerr.msgTimeout
         \/ cerr.isHttpError /\ cerr.status \in {502, 503, 504}


\* C36: once cancel() is called on the HTTPResponse that page(), database(),
\* block() or property() returned, while its request is pending, data$ emits
\* nothing afterwards, with or without a cancel$ subject from the caller.
C36_CancelStopsEmission ==
  [][(gCall.method # "execute" /\ gCancelAt = "active") => gEmitted' = gEmitted]_vars

\* C37: execute with operatorConfig.timeout and without a reporter: when the
\* timer elapses its callback runs to the end, so the cancellation signal is
\* fired and a data$ pending on its first request is terminated.
C37_TimerWithoutReporter ==
  [][(gCall.method = "execute" /\ ~gCall.hasReporter /\ gTimer = "armed"
      /\ gTimer' \notin {"armed", "cancelled"})
     => (gTimer' = "fired" /\ (gData = "active" /\ gCur.n = 1 => gData' = "cancelled"))]_vars

====
